---- MODULE Spec2Model ----
(***************************************************************************)
(* Model of v32_us_app.py (V32 US stock monitor).                          *)
(*                                                                         *)
(* Number representation.  Prices, moving averages and MACD values are     *)
(* integers; NaN (what pandas yields for a rolling mean over too few bars) *)
(* is the integer NaN, and every ordered comparison with it is FALSE, as   *)
(* in IEEE-754.  Ratios (rvol, rs, rsi) are exact fractions <<num, den>>   *)
(* with den >= 0: <<n, 0>> with n > 0 is +inf and <<0, 0>> is NaN.         *)
(* Floating-point rounding is not modelled.                                *)
(*                                                                         *)
(* A price history (the DataFrame returned by Ticker.history) is modelled  *)
(* by its number of bars and by the aggregates of its last windows that    *)
(* the code reads: the last close, the means of the last 20/50/200 closes, *)
(* the last volume, the mean of the last 20 volumes, the 14-bar means of   *)
(* gains and losses, and the last MACD and signal values.  A rolling(n)    *)
(* mean is NaN when the history holds fewer than n bars.                   *)
(***************************************************************************)
EXTENDS Integers, Sequences, FiniteSets, TLC

VARIABLES
    yf,           \* market data service: ticker -> [hist, calendar]
    pc,           \* position of the function-call harness: "ready" | "done"
    fn,           \* the function the harness calls
    ret,          \* what the called function returned
    holdings_df,  \* st.session_state['holdings_df']: sequence of position records
    cloud_csv,    \* holdings.csv in the GitHub repository
    repo_ok,      \* whether get_repo() yields a repository
    display_inv,  \* st.session_state['display_inv']: rows of the holdings table
    df_shield,    \* the table displayed by the shield pool scan
    df_spear      \* the table displayed by the spear pool scan

vars == <<yf, pc, fn, ret, holdings_df, cloud_csv, repo_ok, display_inv, df_shield, df_spear>>

-----------------------------------------------------------------------------
(* Bounds of the model *)

MaxPrice == 3      \* prices and moving averages range over 1..MaxPrice
MaxGain == 3       \* 14-bar mean gain ranges over 0..MaxGain
MaxDay == 30       \* earnings dates range over today-MaxDay .. today+MaxDay
MaxCost == 1       \* the cost typed in the form ranges over 0..MaxCost
MaxShares == 2     \* the share count typed in the form ranges over 1..MaxShares
MaxHoldings == 3   \* rows of the holdings list in the add/delete specification
MaxRows == 2       \* rows of the holdings list in the refresh specification

-----------------------------------------------------------------------------
(* Numbers *)

NaN == -9999

\* a > b on floats: FALSE when either side is NaN
Gt(a, b) == a # NaN /\ b # NaN /\ a > b

\* a fraction r = <<num, den>> compared with the decimal n/d; NaN compares FALSE
IsNaNF(r) == r[1] = 0 /\ r[2] = 0
FGt(r, n, d) == ~IsNaNF(r) /\ r[1] * d > n * r[2]
FLt(r, n, d) == ~IsNaNF(r) /\ r[1] * d < n * r[2]
\* r >= s on two finite fractions
FGe(r, s) == r[1] * s[2] >= s[1] * r[2]

Min(a, b) == IF a < b THEN a ELSE b

-----------------------------------------------------------------------------
(* Results *)

None == [none |-> TRUE]

MIN_BARS == 200
SENTINEL == 999

-----------------------------------------------------------------------------
(* Indicator engine *)

\* close.rolling(n).mean().iloc[-1]
rolling_mean(hist, n) ==
    IF hist.len < n THEN NaN
    ELSE IF n = 20 THEN hist.mean20
    ELSE IF n = 50 THEN hist.mean50
    ELSE hist.mean200

\* rvol = curr_vol / vol_ma20 if vol_ma20 > 0 else 0
rvol_of(hist) ==
    LET vol_ma20 == IF hist.len < 20 THEN NaN ELSE hist.vol_mean20
    IN IF Gt(vol_ma20, 0) THEN <<hist.curr_vol, vol_ma20>> ELSE <<0, 1>>

\* rs = gain / loss ; rsi = 100 - 100 / (1 + rs)
rsi_of(hist) ==
    LET gain == hist.gain14
        loss == hist.loss14
        rs == <<gain, loss>>
    IN IF IsNaNF(rs) THEN <<0, 0>>
       ELSE IF loss = 0 THEN <<100, 1>>
       ELSE <<100 * (gain + loss) - 100 * loss, gain + loss>>

indicators(hist) ==
    [close |-> hist.close,
     ma20 |-> rolling_mean(hist, 20),
     ma50 |-> rolling_mean(hist, 50),
     ma200 |-> rolling_mean(hist, 200),
     rvol |-> rvol_of(hist),
     rsi14 |-> rsi_of(hist),
     macd |-> hist.macd,
     macd_signal |-> hist.signal]

-----------------------------------------------------------------------------
(* Composite scorer *)

\* variant: the short-term rule accepts close = ma20
v32_score_noclamp_ge(s) ==
    60
    + (IF Gt(s.close, s.ma200) THEN 10 ELSE 0)
    + (IF Gt(s.ma50, s.ma200) THEN 10 ELSE 0)
    + (IF Gt(s.close, s.ma50) THEN 10 ELSE 0)
    + (IF Gt(s.close, s.ma20) \/ s.close = s.ma20 THEN 10 ELSE 0)
    + (IF FGt(s.rvol, 12, 10) THEN 5 ELSE 0)
    + (IF FGt(s.rvol, 15, 10) THEN 10 ELSE 0)
    + (IF FGt(s.rvol, 20, 10) THEN 15 ELSE 0)
    + (IF FGt(s.rsi14, 50, 1) /\ FLt(s.rsi14, 75, 1) THEN 10 ELSE 0)
    + (IF Gt(s.macd, s.macd_signal) THEN 10 ELSE 0)
    + (IF Gt(s.macd, 0) THEN 10 ELSE 0)

v32_score_noclamp(s) ==
    60
    + (IF Gt(s.close, s.ma200) THEN 10 ELSE 0)
    + (IF Gt(s.ma50, s.ma200) THEN 10 ELSE 0)
    + (IF Gt(s.close, s.ma50) THEN 10 ELSE 0)
    + (IF Gt(s.close, s.ma20) THEN 10 ELSE 0)
    + (IF FGt(s.rvol, 12, 10) THEN 5 ELSE 0)
    + (IF FGt(s.rvol, 15, 10) THEN 10 ELSE 0)
    + (IF FGt(s.rvol, 20, 10) THEN 15 ELSE 0)
    + (IF FGt(s.rsi14, 50, 1) /\ FLt(s.rsi14, 75, 1) THEN 10 ELSE 0)
    + (IF Gt(s.macd, s.macd_signal) THEN 10 ELSE 0)
    + (IF Gt(s.macd, 0) THEN 10 ELSE 0)

\* variant: the score is returned without min(100, .)
v32_score_unclamped(s) == v32_score_noclamp(s)

\* variant: the base score is 50
v32_score_base50(s) == Min(100, v32_score_noclamp(s) - 10)

v32_score(s) == Min(100, v32_score_noclamp(s))

-----------------------------------------------------------------------------
(* Earnings-proximity estimator *)

\* variant: a past date is returned as a negative day count
get_earnings_days_past(cal) ==
    IF cal.kind = "raise" THEN SENTINEL
    ELSE IF cal.kind = "none" \/ cal.kind = "empty" THEN SENTINEL
    ELSE IF cal.kind # "date" THEN SENTINEL
    ELSE cal.days

get_earnings_days(cal) ==
    IF cal.kind = "raise" THEN SENTINEL
    ELSE IF cal.kind = "none" \/ cal.kind = "empty" THEN SENTINEL
    ELSE IF cal.kind # "date" THEN SENTINEL
    ELSE IF cal.days >= 0 THEN cal.days ELSE SENTINEL

-----------------------------------------------------------------------------
(* calculate_v32_us *)

\* variant: no check of the number of bars
calculate_v32_us_nolen(ticker) ==
    LET hist == yf[ticker].hist
    IN IF hist.kind = "raise" THEN None
       ELSE LET s == indicators(hist)
            IN [ticker |-> ticker,
                price |-> s.close,
                score |-> v32_score(s),
                rvol |-> s.rvol,
                rsi |-> s.rsi14,
                earn |-> get_earnings_days(yf[ticker].cal)]

calculate_v32_us(ticker) ==
    LET hist == yf[ticker].hist
    IN IF hist.kind = "raise" THEN None
       ELSE IF hist.len < MIN_BARS THEN None
       ELSE LET s == indicators(hist)
            IN [ticker |-> ticker,
                price |-> s.close,
                score |-> v32_score(s),
                rvol |-> s.rvol,
                rsi |-> s.rsi14,
                earn |-> get_earnings_days(yf[ticker].cal)]

-----------------------------------------------------------------------------
(* Market regime classifier *)

BENCHMARK == "^GSPC"

\* variant: Bullish also when close = ma20
get_market_status_ge ==
    LET hist == yf[BENCHMARK].hist
    IN IF hist.kind = "raise" THEN None
       ELSE IF hist.len = 0 THEN None
       ELSE LET curr == hist.close
                ma20 == rolling_mean(hist, 20)
                ma50 == rolling_mean(hist, 50)
                ma200 == rolling_mean(hist, 200)
                status == IF Gt(curr, ma200)
                          THEN IF Gt(curr, ma20) \/ curr = ma20 THEN "Bullish"
                               ELSE IF Gt(curr, ma50) THEN "Correction"
                               ELSE "Weak"
                          ELSE "Bearish"
            IN [status |-> status, price |-> curr, ma200 |-> ma200]

get_market_status ==
    LET hist == yf[BENCHMARK].hist
    IN IF hist.kind = "raise" THEN None
       ELSE IF hist.len = 0 THEN None
       ELSE LET curr == hist.close
                ma20 == rolling_mean(hist, 20)
                ma50 == rolling_mean(hist, 50)
                ma200 == rolling_mean(hist, 200)
                status == IF Gt(curr, ma200)
                          THEN IF Gt(curr, ma20) THEN "Bullish"
                               ELSE IF Gt(curr, ma50) THEN "Correction"
                               ELSE "Weak"
                          ELSE "Bearish"
            IN [status |-> status, price |-> curr, ma200 |-> ma200]

-----------------------------------------------------------------------------
(* Holdings advisory: the body of the refresh loop, for one row of holdings_df *)

\* variant: the earnings label needs fewer than 5 days
advise_lt5(v32_data) ==
    IF v32_data.earn < 5 THEN "earnings risk exit"
    ELSE IF v32_data.score < 60 THEN "weakening, watch"
    ELSE "hold"

advise(v32_data) ==
    IF v32_data.earn <= 5 THEN "earnings risk exit"
    ELSE IF v32_data.score < 60 THEN "weakening, watch"
    ELSE "hold"

\* The row appended to display_data, or None when the scan gave no result.
\* curr_price is a numpy float: dividing by a zero cost yields inf or NaN
\* (the fraction's denominator is 0) and does not raise.
refresh_row(row) ==
    LET v32_data == calculate_v32_us(row.Code)
    IN IF v32_data = None THEN None
       ELSE [code |-> row.Code,
             cost |-> row.Cost,
             price |-> v32_data.price,
             profit |-> (v32_data.price - row.Cost) * row.Shares,
             profit_pct |-> <<(v32_data.price - row.Cost) * 100, row.Cost>>,
             earn |-> v32_data.earn,
             score |-> v32_data.score,
             advise |-> advise(v32_data)]

-----------------------------------------------------------------------------
(* Market data the functions are run on *)

\* shield_list and spear_list, cut to their first three tickers
shield_list == <<"AAPL", "MSFT", "GOOGL">>
spear_list == <<"PLTR", "SOFI", "MARA">>

Range(seq) == {seq[i] : i \in 1..Len(seq)}
Tickers == Range(shield_list) \cup Range(spear_list)
AllTickers == Tickers \cup {BENCHMARK}

RaiseHist == [kind |-> "raise"]

OkHist(n, c, m20, m50, m200, cv, vm, g, l, m, sg) ==
    [kind |-> "ok", len |-> n, close |-> c, mean20 |-> m20, mean50 |-> m50,
     mean200 |-> m200, curr_vol |-> cv, vol_mean20 |-> vm,
     gain14 |-> g, loss14 |-> l, macd |-> m, signal |-> sg]

Prices == 1..MaxPrice
\* <<last volume, mean of the last 20 volumes>>: around the 1.2 / 1.5 / 2.0 cuts
VolPairs == {<<21, 0>>} \cup {<<cv, 10>> : cv \in {0, 12, 13, 15, 16, 20, 21}}
\* <<mean gain, mean loss>>: rsi NaN, 100, 0, 50, 66.7, 75
GainPairs == {<<0, 0>>, <<1, 0>>} \cup {<<g, 1>> : g \in 0..MaxGain}
\* <<macd, signal>>
MacdPairs == {<<0, -1>>, <<1, -1>>, <<-1, 1>>, <<1, 1>>, <<1, 2>>}

NoCal == [kind |-> "none"]
DateCal(d) == [kind |-> "date", days |-> d]
\* ticker_obj.calendar: raises, None, empty, first cell not a datetime, or a date
Cals == {[kind |-> "raise"], NoCal, [kind |-> "empty"], [kind |-> "notdate"]}
        \cup {DateCal(d) : d \in (0 - MaxDay)..MaxDay}
ScanCals == {[kind |-> "raise"], NoCal, DateCal(-1), DateCal(5), DateCal(6)}
CalcCals == {NoCal, DateCal(5)}

\* histories of one year: exactly MIN_BARS bars, every combination of aggregates
FullHists ==
    {OkHist(MIN_BARS, c, m20, m50, m200, v[1], v[2], g[1], g[2], m[1], m[2]) :
        c \in Prices, m20 \in Prices, m50 \in Prices, m200 \in Prices,
        v \in VolPairs, g \in GainPairs, m \in MacdPairs}

\* histories the benchmark may return: any length around the window sizes
MarketLens == {0, 19, 20, 49, 50, 199, 200, 250}
MarketHists ==
    {OkHist(n, c, m20, m50, m200, 10, 10, 1, 1, 0, 0) :
        n \in MarketLens, c \in Prices, m20 \in Prices, m50 \in Prices, m200 \in Prices}

ShortHists == {h \in MarketHists : h.len \in {0, 199}}

DefaultHist == OkHist(250, 1, 1, 1, 1, 10, 10, 1, 1, 0, 0)
DefaultFeed == [hist |-> DefaultHist, cal |-> NoCal]

Feed(h, c) == [hist |-> h, cal |-> c]

\* the same feed for every ticker
Everywhere(f) == [t \in AllTickers |-> f]

-----------------------------------------------------------------------------
(* Function-call harness: the input is drawn by Init, the action calls *)

CoreTicker == "AAPL"
NoTable == [shown |-> FALSE]
Table(rows) == [shown |-> TRUE, rows |-> rows]

AppIdle ==
    /\ holdings_df = <<>>
    /\ cloud_csv = <<>>
    /\ repo_ok = TRUE
    /\ display_inv = NoTable
    /\ df_shield = NoTable
    /\ df_spear = NoTable

InitCore ==
    /\ pc = "ready"
    /\ ret = None
    /\ AppIdle
    /\ \/ /\ fn = "calculate_v32_us"
          /\ \E h \in FullHists \cup ShortHists \cup {RaiseHist}, c \in CalcCals :
                yf = Everywhere(Feed(h, c))
       \/ /\ fn = "get_market_status"
          /\ \E h \in MarketHists \cup {RaiseHist} : yf = Everywhere(Feed(h, NoCal))
       \/ /\ fn = "get_earnings_days"
          /\ \E c \in Cals : yf = Everywhere(Feed(DefaultHist, c))
       \/ /\ fn = "refresh_row"
          /\ \E h \in FullHists \cup ShortHists \cup {RaiseHist}, c \in ScanCals :
                yf = Everywhere(Feed(h, c))

AppUnchanged == UNCHANGED <<holdings_df, cloud_csv, repo_ok, display_inv, df_shield, df_spear>>

CallCalculate ==
    /\ pc = "ready" /\ fn = "calculate_v32_us"
    /\ ret' = calculate_v32_us(CoreTicker)
    /\ pc' = "done"
    /\ UNCHANGED <<yf, fn>> /\ AppUnchanged

CallMarketStatus ==
    /\ pc = "ready" /\ fn = "get_market_status"
    /\ ret' = get_market_status
    /\ pc' = "done"
    /\ UNCHANGED <<yf, fn>> /\ AppUnchanged

CallEarningsDays ==
    /\ pc = "ready" /\ fn = "get_earnings_days"
    /\ ret' = [days |-> get_earnings_days(yf[CoreTicker].cal)]
    /\ pc' = "done"
    /\ UNCHANGED <<yf, fn>> /\ AppUnchanged

CoreRow == [Code |-> CoreTicker, Cost |-> 1, Shares |-> 1]

CallRefreshRow ==
    /\ pc = "ready" /\ fn = "refresh_row"
    /\ ret' = refresh_row(CoreRow)
    /\ pc' = "done"
    /\ UNCHANGED <<yf, fn>> /\ AppUnchanged

NextCore == CallCalculate \/ CallMarketStatus \/ CallEarningsDays \/ CallRefreshRow

SpecCore == InitCore /\ [][NextCore]_vars

-----------------------------------------------------------------------------
(* Holdings list: the add form and the delete expander of tab 1.            *)
(* A position record keeps Code, Cost and Shares; Type and Note are not     *)
(* read by any computation and are left out.                                *)

Codes == {"AAPL", "MSFT"}

\* save_holdings(df): writes holdings.csv when get_repo() yields a repository
\* (the CSV text is kept as the rows it encodes; a write that fails although
\* the repository is reachable is not modelled)
save_holdings(df) == IF repo_ok THEN df ELSE cloud_csv

\* what the form lets the user submit: number_input(min_value=0.0) for the
\* cost, number_input(min_value=1) for the shares, any text for the code
FormCodes == Codes \cup {""}
FormCosts == 0..MaxCost
FormShares == 1..MaxShares

add_stock(new_code, new_cost, new_shares) ==
    Append(holdings_df, [Code |-> new_code, Cost |-> new_cost, Shares |-> new_shares])

AddStock ==
    \E new_code \in FormCodes, new_cost \in FormCosts, new_shares \in FormShares :
        /\ new_code # ""
        /\ Len(holdings_df) < MaxHoldings
        /\ holdings_df' = add_stock(new_code, new_cost, new_shares)
        /\ cloud_csv' = save_holdings(holdings_df')
        /\ UNCHANGED <<yf, pc, fn, ret, repo_ok, display_inv, df_shield, df_spear>>

\* the select box shows "Code (cost Cost)" per row
option(row) == <<row.Code, row.Cost>>

\* options[options == selected_option].index[0]: the first row with that text
idx_to_del(selected) ==
    CHOOSE i \in 1..Len(holdings_df) :
        /\ option(holdings_df[i]) = selected
        /\ \A j \in 1..(i - 1) : option(holdings_df[j]) # selected

drop(df, idx) == [i \in 1..(Len(df) - 1) |-> IF i < idx THEN df[i] ELSE df[i + 1]]

DeleteStock ==
    /\ holdings_df # <<>>
    /\ \E k \in 1..Len(holdings_df) :
          /\ holdings_df' = drop(holdings_df, idx_to_del(option(holdings_df[k])))
          /\ cloud_csv' = save_holdings(holdings_df')
          /\ UNCHANGED <<yf, pc, fn, ret, repo_ok, display_inv, df_shield, df_spear>>

\* holdings.csv as a valid store holds it: every Cost and Shares positive
ValidRecords == [Code : Codes, Cost : 1..MaxCost, Shares : 1..MaxShares]
ValidLoaded == {<<>>} \cup {<<r>> : r \in ValidRecords}

\* load_holdings(): the stored rows, or an empty frame without a repository
InitHoldings ==
    /\ pc = "app" /\ fn = "main" /\ ret = None
    /\ yf = Everywhere(DefaultFeed)
    /\ repo_ok \in BOOLEAN
    /\ cloud_csv \in ValidLoaded
    /\ holdings_df = IF repo_ok THEN cloud_csv ELSE <<>>
    /\ display_inv = NoTable /\ df_shield = NoTable /\ df_spear = NoTable

NextHoldings == AddStock \/ DeleteStock

SpecHoldings == InitHoldings /\ [][NextHoldings]_vars

-----------------------------------------------------------------------------
(* Scans: the holdings refresh of tab 1 and the pool scans of tabs 2 and 3 *)

RECURSIVE display_data(_)
display_data(rows) ==
    IF rows = <<>> THEN <<>>
    ELSE LET r == refresh_row(Head(rows))
             rest == display_data(Tail(rows))
         IN IF r = None THEN rest ELSE <<r>> \o rest

RefreshHoldings ==
    /\ holdings_df # <<>>
    /\ display_inv' = Table(display_data(holdings_df))
    /\ UNCHANGED <<yf, pc, fn, ret, holdings_df, cloud_csv, repo_ok, df_shield, df_spear>>

SHIELD_MIN == 70
SPEAR_MIN == 80

\* the results list of a pool scan: data and data['score'] >= threshold
RECURSIVE scan_pool(_, _)
scan_pool(list, threshold) ==
    IF list = <<>> THEN <<>>
    ELSE LET data == calculate_v32_us(Head(list))
             rest == scan_pool(Tail(list), threshold)
         IN IF data # None /\ data.score >= threshold THEN <<data>> \o rest ELSE rest

KeyOf(r, by) == IF by = "score" THEN <<r.score, 1>> ELSE r.rvol

Perms(n) == {p \in [1..n -> 1..n] : \A i, j \in 1..n : i # j => p[i] # p[j]}

\* variant: ascending order
sort_values_ascending(results, by) ==
    {[i \in 1..Len(results) |-> results[p[i]]] : p \in
        {q \in Perms(Len(results)) :
            \A i \in 1..(Len(results) - 1) :
                FGe(KeyOf(results[q[i + 1]], by), KeyOf(results[q[i]], by))}}

\* df.sort_values(by, ascending=False): pandas sorts with kind='quicksort',
\* which is not a stable sort, so rows with equal keys may come in any order
sort_values(results, by) ==
    {[i \in 1..Len(results) |-> results[p[i]]] : p \in
        {q \in Perms(Len(results)) :
            \A i \in 1..(Len(results) - 1) :
                FGe(KeyOf(results[q[i]], by), KeyOf(results[q[i + 1]], by))}}

ScanShield ==
    \E df \in sort_values(scan_pool(shield_list, SHIELD_MIN), "score") :
        /\ df_shield' = Table(df)
        /\ UNCHANGED <<yf, pc, fn, ret, holdings_df, cloud_csv, repo_ok, display_inv, df_spear>>

ScanSpear ==
    \E df \in sort_values(scan_pool(spear_list, SPEAR_MIN), "rvol") :
        /\ df_spear' = Table(df)
        /\ UNCHANGED <<yf, pc, fn, ret, holdings_df, cloud_csv, repo_ok, display_inv, df_shield>>

\* market data of the scans: a failed fetch, a short history, and full
\* histories scoring 60..100 with rvol 0, 1.3 or 2.1
TrendHists(cv) ==
    {OkHist(250, 1, 2, 2, 2, cv, 10, 0, 0, 0, 0),
     OkHist(250, 1, 2, 2, 1, cv, 10, 0, 0, 0, 0),
     OkHist(250, 2, 2, 2, 1, cv, 10, 0, 0, 0, 0)}
ShortHist == OkHist(199, 2, 1, 1, 1, 21, 10, 2, 1, 1, 0)
PoolFeeds ==
    {Feed(h, NoCal) : h \in {RaiseHist, ShortHist} \cup TrendHists(0) \cup TrendHists(13) \cup TrendHists(21)}
RefreshFeeds ==
    {Feed(RaiseHist, NoCal), Feed(ShortHist, DateCal(5))}
    \cup {Feed(h, c) : h \in TrendHists(0), c \in {NoCal, DateCal(5), DateCal(6)}}

RefreshRecords == [Code : Codes, Cost : {0, 1}, Shares : {1}]
RECURSIVE SeqsUpTo(_, _)
SeqsUpTo(S, n) ==
    IF n = 0 THEN {<<>>}
    ELSE LET shorter == SeqsUpTo(S, n - 1)
         IN shorter \cup {Append(q, x) : q \in {r \in shorter : Len(r) = n - 1}, x \in S}

\* yf with the tickers of `list` drawn from `feeds`, the default elsewhere
FeedsOn(list, feeds) ==
    {[t \in AllTickers |-> IF t \in Range(list) THEN f[t] ELSE DefaultFeed] :
        f \in [Range(list) -> feeds]}

InitScan ==
    /\ pc = "app" /\ fn = "main" /\ ret = None
    /\ repo_ok = TRUE
    /\ display_inv = NoTable /\ df_shield = NoTable /\ df_spear = NoTable
    /\ \/ /\ holdings_df \in SeqsUpTo(RefreshRecords, MaxRows)
          /\ yf \in FeedsOn(<<"AAPL", "MSFT">>, RefreshFeeds)
       \/ /\ holdings_df = <<>>
          /\ yf \in FeedsOn(shield_list, PoolFeeds) \cup FeedsOn(spear_list, PoolFeeds)
    /\ cloud_csv = holdings_df

NextScan == RefreshHoldings \/ ScanShield \/ ScanSpear

SpecScan == InitScan /\ [][NextScan]_vars

-----------------------------------------------------------------------------
(* Properties of the pure functions, under SpecCore *)

Returned(f) == fn = f /\ pc = "done"
CoreHist == yf[CoreTicker].hist
CoreSnap == indicators(CoreHist)

\* the rule table of the composite scorer: <<condition, weight>>
RuleTable(s) ==
    << <<s.close # NaN /\ s.ma200 # NaN /\ s.close > s.ma200, 10>>,
       <<s.ma50 # NaN /\ s.ma200 # NaN /\ s.ma50 > s.ma200, 10>>,
       <<s.close # NaN /\ s.ma50 # NaN /\ s.close > s.ma50, 10>>,
       <<s.close # NaN /\ s.ma20 # NaN /\ s.close > s.ma20, 10>>,
       <<10 * s.rvol[1] > 12 * s.rvol[2], 5>>,
       <<10 * s.rvol[1] > 15 * s.rvol[2], 10>>,
       <<10 * s.rvol[1] > 20 * s.rvol[2], 15>>,
       <<s.rsi14 # <<0, 0>> /\ 50 * s.rsi14[2] < s.rsi14[1] /\ s.rsi14[1] < 75 * s.rsi14[2], 10>>,
       <<s.macd > s.macd_signal, 10>>,
       <<s.macd > 0, 10>> >>

RECURSIVE WeightSum(_, _)
WeightSum(table, n) ==
    IF n = 0 THEN 0
    ELSE WeightSum(table, n - 1) + (IF table[n][1] THEN table[n][2] ELSE 0)

SatisfiedCount(table) == Cardinality({i \in 1..Len(table) : table[i][1]})

\* C1: the score calculate_v32_us returns is min(100, 60 + the sum of the
\* weights of the satisfied rules), all comparisons strict, the three volume
\* rules accumulating; ten satisfied rules give 100 and none gives 60.
C1_ScoreIsCappedRuleSum ==
    (Returned("calculate_v32_us") /\ ret # None) =>
        LET t == RuleTable(CoreSnap)
        IN /\ ret.score = Min(100, 60 + WeightSum(t, Len(t)))
           /\ (t[7][1] => t[5][1] /\ t[6][1] /\ WeightSum(t, 7) - WeightSum(t, 4) = 30)
           /\ (SatisfiedCount(t) = 10 => ret.score = 100)
           /\ (SatisfiedCount(t) = 0 => ret.score = 60)

\* a snapshot satisfying all ten rules (raw 160) was scored 100
C1_Witness ==
    /\ Returned("calculate_v32_us") /\ ret # None
    /\ SatisfiedCount(RuleTable(CoreSnap)) = 10
    /\ ret.score = 100

\* C2: every score returned lies in 0..100, also with an undefined RSI or a
\* zero rvol.
C2_ScoreInRange ==
    (Returned("calculate_v32_us") /\ ret # None) => ret.score \in 0..100

\* a raw score above 100 was returned clamped
C2_Witness ==
    /\ Returned("calculate_v32_us") /\ ret # None
    /\ v32_score_noclamp(CoreSnap) > 100
    /\ ret.score = 100

\* an undefined RSI and a zero rvol were scored
C2_WitnessUndefined ==
    /\ Returned("calculate_v32_us") /\ ret # None
    /\ ret.rsi = <<0, 0>> /\ ret.rvol = <<0, 1>>

Labels == {"Bullish", "Correction", "Weak", "Bearish"}
MarketHist == yf[BENCHMARK].hist
AllDefined(h) == h.kind = "ok" /\ h.len >= 200

\* C3: with close, ma20, ma50 and ma200 all defined, get_market_status returns
\* exactly the label chosen by first match: close <= ma200 Bearish, else
\* close > ma20 Bullish, else close > ma50 Correction, else Weak.
C3_RegimeFirstMatch ==
    (Returned("get_market_status") /\ AllDefined(MarketHist)) =>
        /\ ret # None
        /\ ret.status \in Labels
        /\ ret.status =
             (IF MarketHist.close <= MarketHist.mean200 THEN "Bearish"
              ELSE IF MarketHist.close > MarketHist.mean20 THEN "Bullish"
              ELSE IF MarketHist.close > MarketHist.mean50 THEN "Correction"
              ELSE "Weak")

\* close above ma200 and ma50 but equal to ma20: Correction, not Bullish
C3_Witness ==
    /\ Returned("get_market_status") /\ AllDefined(MarketHist)
    /\ MarketHist.close > MarketHist.mean200
    /\ MarketHist.close = MarketHist.mean20
    /\ MarketHist.close > MarketHist.mean50
    /\ ret.status = "Correction"

CoreCal == yf[CoreTicker].cal

\* C4: get_earnings_days returns 999 or the exact day difference, never a
\* negative number: 999 without a usable date or for a date before today,
\* else (earningsDate - today).days >= 0.
C4_EarningsDaysOrSentinel ==
    Returned("get_earnings_days") =>
        /\ ret.days >= 0
        /\ ret.days = (IF CoreCal.kind = "date" /\ CoreCal.days >= 0
                       THEN CoreCal.days ELSE 999)

\* today+7 gave 7
C4_Witness ==
    /\ Returned("get_earnings_days")
    /\ CoreCal = DateCal(7) /\ ret.days = 7

\* today-30 gave the sentinel
C4_WitnessStale ==
    /\ Returned("get_earnings_days")
    /\ CoreCal = DateCal(-30) /\ ret.days = 999

\* C8: with fewer than 200 bars of benchmark history (ma200 undefined) or no
\* history, get_market_status returns none of the four regime labels.
C8_NoLabelWithoutMa200 ==
    (Returned("get_market_status") /\ ~AllDefined(MarketHist)) =>
        (ret # None => ret.status \notin Labels)

\* C10: every score calculate_v32_us produces is >= 60, so the refresh loop
\* never labels a position 'weakening, watch': every advisory is
\* 'earnings risk exit' or 'hold'.
C10_WeakeningBranchDead ==
    /\ (Returned("calculate_v32_us") /\ ret # None) =>
            ret.score >= 60 /\ advise(ret) \in {"earnings risk exit", "hold"}
    /\ (Returned("refresh_row") /\ ret # None) =>
            ret.score >= 60 /\ ret.advise \in {"earnings risk exit", "hold"}

\* a position with no rule satisfied and no near earnings date was labelled hold
C10_Witness ==
    /\ Returned("refresh_row") /\ ret # None
    /\ ret.score = 60 /\ ret.earn > 5 /\ ret.advise = "hold"

-----------------------------------------------------------------------------
(* Properties of the scans, under SpecScan (yf and holdings_df stay as drawn) *)

Failed(t) == yf[t].hist.kind = "raise" \/ yf[t].hist.len < 200

\* the results a pool must show: every successful scan at or above the threshold
Qualifying(list, threshold) ==
    {d \in {calculate_v32_us(t) : t \in Range(list)} : d # None /\ d.score >= threshold}

IndexIn(list, t) == CHOOSE k \in 1..Len(list) : list[k] = t

ExactlyQualifying(df, list, threshold) ==
    /\ Range(df.rows) = Qualifying(list, threshold)
    /\ Len(df.rows) = Cardinality(Qualifying(list, threshold))

DescendingBy(df, by) ==
    \A i, j \in 1..Len(df.rows) :
        i < j => FGe(KeyOf(df.rows[i], by), KeyOf(df.rows[j], by))

TiesInScanOrder(df, list, by) ==
    \A i, j \in 1..Len(df.rows) :
        (i < j /\ FGe(KeyOf(df.rows[j], by), KeyOf(df.rows[i], by))) =>
            IndexIn(list, df.rows[i].ticker) < IndexIn(list, df.rows[j].ticker)

\* C5 (as amended): after a pool scan the displayed pool holds exactly the scan
\* results with score >= 70 (shield) or >= 80 (spear), ordered descending by
\* score (shield) or by rvol (spear); the order of equal keys is not fixed.
C5_PoolFilteredAndSorted ==
    /\ df_shield.shown =>
          ExactlyQualifying(df_shield, shield_list, 70) /\ DescendingBy(df_shield, "score")
    /\ df_spear.shown =>
          ExactlyQualifying(df_spear, spear_list, 80) /\ DescendingBy(df_spear, "rvol")

\* C5 (as claimed): the same, and results with equal sort key appear in their
\* original scan order (a stable sort).
C5_StableSort ==
    /\ C5_PoolFilteredAndSorted
    /\ df_shield.shown => TiesInScanOrder(df_shield, shield_list, "score")
    /\ df_spear.shown => TiesInScanOrder(df_spear, spear_list, "rvol")

\* a shield scan dropped a result below 70 and moved a later, higher-scoring
\* ticker in front of an earlier one that ties with a third
C5_Witness ==
    /\ df_shield.shown
    /\ Len(df_shield.rows) = 2
    /\ df_shield.rows[1].ticker = "GOOGL"
    /\ df_shield.rows[1].score > df_shield.rows[2].score
    /\ df_shield.rows[2].score = 70
    /\ \E t \in Range(shield_list) : ~Failed(t) /\ calculate_v32_us(t).score = 65

\* C6: every row of the holdings table is labelled by priority: earnings
\* horizon <= 5 'earnings risk exit' whatever the score, else score < 60
\* 'weakening, watch', else 'hold'; the sentinel 999 never gives the
\* earnings label.
C6_AdvisoryPriority ==
    display_inv.shown =>
        \A i \in 1..Len(display_inv.rows) :
            LET r == display_inv.rows[i]
            IN /\ r.earn = (IF yf[r.code].cal.kind = "date" /\ yf[r.code].cal.days >= 0
                            THEN yf[r.code].cal.days ELSE 999)
               /\ r.advise = (IF r.earn <= 5 THEN "earnings risk exit"
                              ELSE IF r.score < 60 THEN "weakening, watch"
                              ELSE "hold")
               /\ (r.earn = 999 => r.advise # "earnings risk exit")

\* one pass labelled a position five days from earnings 'exit' and a
\* position with no earnings date 'hold'
C6_Witness ==
    /\ display_inv.shown
    /\ Len(display_inv.rows) = 2
    /\ display_inv.rows[1].earn = 5
    /\ display_inv.rows[1].advise = "earnings risk exit"
    /\ display_inv.rows[2].earn = 999
    /\ display_inv.rows[2].advise = "hold"

CodesOf(rows) == [i \in 1..Len(rows) |-> rows[i].code]
RECURSIVE Succeeded(_)
Succeeded(rows) ==
    IF rows = <<>> THEN <<>>
    ELSE IF Failed(Head(rows).Code) THEN Succeeded(Tail(rows))
    ELSE <<Head(rows).Code>> \o Succeeded(Tail(rows))

PoolRowsSucceeded(df, list, threshold) ==
    /\ \A i \in 1..Len(df.rows) :
          df.rows[i].ticker \in Range(list) /\ ~Failed(df.rows[i].ticker)
    /\ \A t \in Range(list) :
          (~Failed(t) /\ calculate_v32_us(t).score >= threshold) =>
              \E i \in 1..Len(df.rows) : df.rows[i].ticker = t

\* C7: a ticker whose scan fails (fewer than 200 bars, or the fetch raises)
\* gets no result and appears in no pool and not in the holdings table; the
\* pass goes on, so the rows are exactly the scanned tickers that succeeded.
C7_FailedScansSkipped ==
    /\ \A t \in Tickers : Failed(t) => calculate_v32_us(t) = None
    /\ display_inv.shown => CodesOf(display_inv.rows) = Succeeded(holdings_df)
    /\ df_shield.shown => PoolRowsSucceeded(df_shield, shield_list, 70)
    /\ df_spear.shown => PoolRowsSucceeded(df_spear, spear_list, 80)

\* a refresh skipped a failed first position and still showed the second
C7_Witness ==
    /\ display_inv.shown
    /\ Len(holdings_df) = 2
    /\ Failed(holdings_df[1].Code)
    /\ Len(display_inv.rows) = 1
    /\ display_inv.rows[1].code = holdings_df[2].Code

-----------------------------------------------------------------------------
(* Properties of the holdings list, under SpecHoldings *)

\* C9: after any adds and deletes from valid loaded holdings, every record
\* has Cost > 0 and Shares > 0.
C9_PositiveCostAndShares ==
    \A i \in 1..Len(holdings_df) :
        holdings_df[i].Cost > 0 /\ holdings_df[i].Shares > 0

====
